---- MODULE Spec2Model ----
(***************************************************************************)
(* A model of BD_DOCENTES_STLL.py: the save path of GestorDocentes         *)
(* (acquire_lock / backup / guardar / release_lock) run by the processes   *)
(* that share one backing file, the CRUD loop of run_interactivo over the  *)
(* in-memory table, its menu, paginar, mapear_columnas_clave, buscar and   *)
(* the validators.                                                         *)
(*                                                                         *)
(* Strings are sequences of one-character strings, so that clean_rut,      *)
(* format_rut and the validators are computed character by character.      *)
(***************************************************************************)
EXTENDS Integers, Sequences, FiniteSets, TLC

(***************************************************************************)
(* Bounds of the model.                                                    *)
(***************************************************************************)
\* lock_timeout, in seconds (the constructor's parameter, 300 by default)
LockTimeout == 2
\* the most rows the in-memory table grows to
MaxRows == 2
\* the most rows of a table given to paginar
MaxTotal == 5
\* the largest page size given to paginar or typed at its prompt
MaxPageSize == 3

\* the two processes that run guardar on the same backing file
Procs == {1, 2}

(***************************************************************************)
(* Strings, and the functions of the validators.                           *)
(***************************************************************************)
Digits == {"0", "1", "2", "3", "4", "5", "6", "7", "8", "9"}
LowerLetters == {"a", "b", "c", "k", "l"}
UpperLetters == {"A", "B", "C", "K", "L"}
\* \s of the regular expressions
Whitespace == {" "}
\* \w of the regular expressions
WordChars == Digits \cup LowerLetters \cup UpperLetters \cup {"_"}

DigitVal(c) ==
    CASE c = "0" -> 0 [] c = "1" -> 1 [] c = "2" -> 2 [] c = "3" -> 3 [] c = "4" -> 4
      [] c = "5" -> 5 [] c = "6" -> 6 [] c = "7" -> 7 [] c = "8" -> 8 [] c = "9" -> 9

DigitChar(n) ==
    CASE n = 0 -> "0" [] n = 1 -> "1" [] n = 2 -> "2" [] n = 3 -> "3" [] n = 4 -> "4"
      [] n = 5 -> "5" [] n = 6 -> "6" [] n = 7 -> "7" [] n = 8 -> "8" [] n = 9 -> "9"

\* str.upper(), one character
UpperChar(c) ==
    CASE c = "a" -> "A" [] c = "b" -> "B" [] c = "c" -> "C" [] c = "k" -> "K"
      [] c = "l" -> "L" [] c = "a_acute" -> "A_acute"
      [] c = "e" -> "E" [] c = "f" -> "F" [] c = "i" -> "I" [] c = "m" -> "M"
      [] c = "n" -> "N" [] c = "o" -> "O" [] c = "r" -> "R" [] c = "s" -> "S"
      [] c = "t" -> "T" [] c = "u" -> "U" [] c = "d" -> "D" [] c = "g" -> "G"
      [] c = "h" -> "H" [] c = "q" -> "Q" [] c = "v" -> "V" [] OTHER -> c

\* the characters of s that are not in drop, in order: re.sub(r"[...]", "", s)
RECURSIVE RemoveChars(_, _)
RemoveChars(s, drop) ==
    IF s = <<>> THEN <<>>
    ELSE IF Head(s) \in drop THEN RemoveChars(Tail(s), drop)
         ELSE <<Head(s)>> \o RemoveChars(Tail(s), drop)

Upper(s) == [i \in 1 .. Len(s) |-> UpperChar(s[i])]

\* str.strip()
RECURSIVE LStrip(_)
LStrip(s) == IF s # <<>> /\ Head(s) \in Whitespace THEN LStrip(Tail(s)) ELSE s
RECURSIVE RStrip(_)
RStrip(s) ==
    IF s # <<>> /\ s[Len(s)] \in Whitespace THEN RStrip(SubSeq(s, 1, Len(s) - 1)) ELSE s
Strip(s) == RStrip(LStrip(s))

AllIn(s, chars) == \A i \in 1 .. Len(s) : s[i] \in chars

\* a clean_rut that leaves the case as it is
clean_rut_NoUpper(rut) == RemoveChars(rut, {".", "-"} \cup Whitespace)

\* clean_rut, lines 144-147
clean_rut(rut) == Upper(RemoveChars(rut, {".", "-"} \cup Whitespace))

\* a format_rut that loses the check character
format_rut_DropDv(rut) ==
    LET rn == RemoveChars(rut, {".", "-"} \cup Whitespace)
    IN  IF Len(rn) < 2 THEN rut ELSE SubSeq(rn, 1, Len(rn) - 1) \o <<"-">>

\* format_rut, lines 149-154
format_rut(rut) ==
    LET rn == clean_rut(rut)
    IN  IF Len(rn) < 2 THEN rut
        ELSE SubSeq(rn, 1, Len(rn) - 1) \o <<"-">> \o <<rn[Len(rn)]>>

\* validar_rut, line 225
factors == <<2, 3, 4, 5, 6, 7>>

\* validar_rut, lines 226-230: the weighted sum over the digits of num, from
\* the last to the first
RECURSIVE rut_total(_, _)
rut_total(num, factor_index) ==
    IF num = <<>> THEN 0
    ELSE DigitVal(num[Len(num)]) * factors[factor_index + 1]
         + rut_total(SubSeq(num, 1, Len(num) - 1), (factor_index + 1) % Len(factors))

\* a check character with the two special cases exchanged
dv_calculado_Swapped(num) ==
    LET mod == 11 - (rut_total(num, 0) % 11)
    IN  IF mod = 10 THEN "0" ELSE IF mod = 11 THEN "K" ELSE DigitChar(mod)

\* validar_rut, lines 231-232
dv_calculado(num) ==
    LET mod == 11 - (rut_total(num, 0) % 11)
    IN  IF mod = 10 THEN "K" ELSE IF mod = 11 THEN "0" ELSE DigitChar(mod)

\* validar_rut, line 219: ^\d{7,8}[0-9K]$
rut_shape(s) ==
    /\ Len(s) \in {8, 9}
    /\ AllIn(SubSeq(s, 1, Len(s) - 1), Digits)
    /\ s[Len(s)] \in Digits \cup {"K"}

\* validar_rut, lines 217-235
validar_rut(rut) ==
    LET rut_clean == clean_rut(rut)
    IN  /\ rut_shape(rut_clean)
        /\ dv_calculado(SubSeq(rut_clean, 1, Len(rut_clean) - 1)) = rut_clean[Len(rut_clean)]

\* validar_email, lines 237-238: ^[\w\.-]+@[\w\.-]+\.\w+$
validar_email(email) ==
    \E at \in 1 .. Len(email) : \E dot \in 1 .. Len(email) :
        /\ email[at] = "@"
        /\ email[dot] = "."
        /\ 1 < at /\ at + 1 < dot /\ dot < Len(email)
        /\ AllIn(SubSeq(email, 1, at - 1), WordChars \cup {".", "-"})
        /\ AllIn(SubSeq(email, at + 1, dot - 1), WordChars \cup {".", "-"})
        /\ AllIn(SubSeq(email, dot + 1, Len(email)), WordChars)

\* validar_telefono, lines 240-242
validar_telefono(telefono) ==
    LET t == RemoveChars(telefono, {" ", "-", "(", ")"})
    IN  t # <<>> /\ AllIn(t, Digits) /\ 7 <= Len(t) /\ Len(t) <= 15

(***************************************************************************)
(* buscar, lines 285-295. A character outside ASCII is written by its      *)
(* name: "a_acute", "A_acute", and "kra" (U+0138, a lowercase letter that   *)
(* has no uppercase form).                                                 *)
(***************************************************************************)
\* str.lower(), one character
LowerChar(c) ==
    CASE c = "A" -> "a" [] c = "B" -> "b" [] c = "C" -> "c" [] c = "K" -> "k"
      [] c = "L" -> "l" [] c = "A_acute" -> "a_acute"
      [] c = "E" -> "e" [] c = "F" -> "f" [] c = "I" -> "i" [] c = "M" -> "m"
      [] c = "N" -> "n" [] c = "O" -> "o" [] c = "R" -> "r" [] c = "S" -> "s"
      [] c = "T" -> "t" [] c = "U" -> "u" [] c = "D" -> "d" [] c = "G" -> "g"
      [] c = "H" -> "h" [] c = "Q" -> "q" [] c = "V" -> "v" [] OTHER -> c

Lower(s) == [i \in 1 .. Len(s) |-> LowerChar(s[i])]

\* unidecode(), one character: the letter without its diacritic
unidecode_char(c) ==
    CASE c = "a_acute" -> "a" [] c = "A_acute" -> "A" [] OTHER -> c

unidecode(s) == [i \in 1 .. Len(s) |-> unidecode_char(s[i])]

\* a fold that leaves the case as it is
fold_NoLower(s, transliterate) == IF transliterate THEN unidecode(s) ELSE s

\* lines 287, 289, 291, 293: what is done to the criterion and to a value
\* before they are compared; transliterate says whether unidecode was imported
fold(s, transliterate) == IF transliterate THEN unidecode(Lower(s)) ELSE Lower(s)

\* sub in s, of Python strings
Contains(sub, s) ==
    \E i \in 0 .. Len(s) - Len(sub) : SubSeq(s, i + 1, i + Len(sub)) = sub

\* lines 287 and 291
crit(criterio, transliterate) == fold(Strip(criterio), transliterate)

\* lines 288-289 and 292-293; str(val or '') of a string is the string
match(val, criterio, transliterate) ==
    Contains(crit(criterio, transliterate), fold(val, transliterate))

\* line 294: the mask of the rows of table t, a sequence of rows [column -> value]
mask(t, criterio, transliterate) ==
    [i \in 1 .. Len(t) |-> \E c \in DOMAIN t[i] : match(t[i][c], criterio, transliterate)]

\* line 295, df[mask]: the index labels of the rows kept, from position from on
RECURSIVE buscar_from(_, _, _, _)
buscar_from(t, criterio, transliterate, from) ==
    IF from > Len(t) THEN <<>>
    ELSE (IF mask(t, criterio, transliterate)[from] THEN <<from>> ELSE <<>>)
         \o buscar_from(t, criterio, transliterate, from + 1)

\* buscar, lines 285-295: the index labels of the rows returned, in order
buscar(t, criterio, transliterate) == buscar_from(t, criterio, transliterate, 1)

VARIABLES
    lock_file,   \* the sentinel: 0 absent, -1 left by a process that is gone, p written by process p
    ruta,        \* the backing file: [kind, by]
    backup_dir,  \* the backup directory: a set of [by, content]
    proc,        \* per process: its position in guardar and what it has done so far
    col_rut,     \* the column bound to the ID role: its position in columnas, 0 for None
    col_email,   \* the column bound to the EMAIL role, 0 for None
    col_tel,     \* the column bound to the PHONE role, 0 for None
    df,          \* the in-memory table: a sequence of rows [cells, typed]
    last,        \* the last operation of the CRUD loop: what was typed and what it did
    pag,         \* paginar: its local variables and the pages displayed so far
    loop,        \* run_interactivo: [at, guardar]: in the while loop or out of it, and
                 \* the option typed that called guardar
    call,        \* the last call of a function of the validators or of buscar: [fn, arg, out]
    map          \* mapear_columnas_clave: its local variables and the prompts shown so far

saveVars == <<lock_file, ruta, backup_dir, proc>>
crudVars == <<col_rut, col_email, col_tel, df, last>>
pagVars == <<pag>>
restVars == <<loop, call, map>>
vars == <<saveVars, crudVars, pagVars, restVars>>

(***************************************************************************)
(* The file system the save path acts on.                                  *)
(***************************************************************************)
NoFile == [kind |-> "none", by |-> 0]
OrigFile == [kind |-> "orig", by |-> 0]
\* the table of process p, written completely
DfFile(p) == [kind |-> "df", by |-> p]
\* what a to_excel that raised may leave behind
PartialFile(p) == [kind |-> "partial", by |-> p]

NoLock == 0
StaleLock == -1

ProcInit ==
    [pc |-> "idle",          \* position in guardar
     elapsed |-> 0,          \* time.time() - start, in seconds
     slept |-> 0,            \* calls of time.sleep(1) in acquire_lock
     firstSeen |-> "none",   \* the first result of lock_file.exists() in acquire_lock
     lastSeen |-> "none",    \* the last result of lock_file.exists() in acquire_lock
     lockAfterAcq |-> NoLock,  \* the sentinel when acquire_lock returned
     acquired |-> "none",    \* what acquire_lock returned: "true", "false"
     timedOut |-> FALSE,     \* acquire_lock returned on line 128
     created |-> FALSE,      \* this call brought the sentinel into existence
     lockWrites |-> 0,       \* times this call wrote or truncated the sentinel
     lockDeletes |-> 0,      \* times this call deleted the sentinel
     unlinkFailed |-> FALSE, \* lock_file.unlink() raised
     existed |-> FALSE,      \* ruta.exists() was true on line 205
     backupDone |-> "none",  \* shutil.copy2: "ok", "fail"
     overwrote |-> FALSE,    \* to_excel changed a backing file that existed
     wrote |-> "none",       \* df.to_excel: "ok", "fail"
     steps |-> <<>>,         \* the steps of guardar taken, in order
     lockAtReturn |-> NoLock,  \* the sentinel when guardar returned
     rutaAtCall |-> NoFile,    \* the backing file when guardar was called
     backupsAtCall |-> {}]     \* the backup directory when guardar was called

\* time.sleep(1) returns after at least one second; the clock is read in whole seconds
SleepTimes(e) == {IF e + 1 > LockTimeout + 1 THEN LockTimeout + 1 ELSE e + 1,
                  IF e + 2 > LockTimeout + 1 THEN LockTimeout + 1 ELSE e + 2}

(***************************************************************************)
(* guardar, line 200: the call, and start = time.time() of acquire_lock.   *)
(***************************************************************************)
guardar_entry(p) ==
    [proc EXCEPT ![p].pc = "acq_check",
                 ![p].elapsed = 0,
                 ![p].rutaAtCall = ruta,
                 ![p].backupsAtCall = backup_dir]

CallGuardar(p) ==
    /\ proc[p].pc = "idle"
    /\ proc' = guardar_entry(p)
    /\ UNCHANGED <<lock_file, ruta, backup_dir, crudVars, pagVars, restVars>>

(***************************************************************************)
(* acquire_lock, lines 122-135.                                            *)
(***************************************************************************)
\* a timeout test that is off by one
TimeoutReached_OffByOne(e) == e >= LockTimeout

\* line 125: time.time() - start > self.lock_timeout
TimeoutReached(e) == e > LockTimeout

\* guardar's step after acquire_lock returned True: line 205, ruta.exists()
AfterAcquired == "chk_exists"

\* a guardar that goes on although acquire_lock returned False
AfterAcquireFailed_Ignored == "chk_exists"

\* guardar's step after acquire_lock returned False (lines 201-203): return
AfterAcquireFailed == "done"

\* line 124, the sentinel is absent: leave the loop
AcqSeeAbsent(p) ==
    /\ proc[p].pc = "acq_check"
    /\ lock_file = NoLock
    /\ proc' = [proc EXCEPT ![p].pc = "acq_write",
                            ![p].firstSeen = IF @ = "none" THEN "absent" ELSE @,
                            ![p].lastSeen = "absent"]
    /\ UNCHANGED <<lock_file, ruta, backup_dir, crudVars, pagVars, restVars>>

\* lines 124-129, the sentinel is present and the timeout not reached: sleep
AcqSeePresent(p) ==
    /\ proc[p].pc = "acq_check"
    /\ lock_file # NoLock
    /\ ~TimeoutReached(proc[p].elapsed)
    /\ proc' = [proc EXCEPT ![p].pc = "acq_sleep",
                            ![p].firstSeen = IF @ = "none" THEN "present" ELSE @,
                            ![p].lastSeen = "present"]
    /\ UNCHANGED <<lock_file, ruta, backup_dir, crudVars, pagVars, restVars>>

\* lines 125-128: timeout, acquire_lock returns False
AcqTimeout(p) ==
    /\ proc[p].pc = "acq_check"
    /\ lock_file # NoLock
    /\ TimeoutReached(proc[p].elapsed)
    /\ proc' = [proc EXCEPT ![p].pc = AfterAcquireFailed,
                            ![p].firstSeen = IF @ = "none" THEN "present" ELSE @,
                            ![p].lastSeen = "present",
                            ![p].acquired = "false",
                            ![p].timedOut = TRUE,
                            ![p].lockAfterAcq = lock_file,
                            ![p].lockAtReturn = lock_file]
    /\ UNCHANGED <<lock_file, ruta, backup_dir, crudVars, pagVars, restVars>>

\* line 129: time.sleep(1)
AcqSleep(p) ==
    /\ proc[p].pc = "acq_sleep"
    /\ \E e \in SleepTimes(proc[p].elapsed) :
          proc' = [proc EXCEPT ![p].pc = "acq_check",
                               ![p].elapsed = e,
                               ![p].slept = IF @ < 2 THEN @ + 1 ELSE @]
    /\ UNCHANGED <<lock_file, ruta, backup_dir, crudVars, pagVars, restVars>>

\* lines 131-132: write_text succeeds, acquire_lock returns True
AcqWriteOk(p) ==
    /\ proc[p].pc = "acq_write"
    /\ lock_file' = p
    /\ proc' = [proc EXCEPT ![p].pc = AfterAcquired,
                            ![p].acquired = "true",
                            ![p].created = (lock_file = NoLock),
                            ![p].lockWrites = 1,
                            ![p].lockAfterAcq = p,
                            ![p].steps = Append(@, "lock")]
    /\ UNCHANGED <<ruta, backup_dir, crudVars, pagVars, restVars>>

\* lines 133-135: write_text raises, acquire_lock returns False and guardar
\* returns. Either open() failed and the sentinel is as it was, or open()
\* created (or truncated) the file and the write failed (a full disk): the
\* file is left behind.
AcqWriteFail(p) ==
    /\ proc[p].pc = "acq_write"
    /\ \E left \in BOOLEAN :
          /\ lock_file' = IF left THEN p ELSE lock_file
          /\ proc' = [proc EXCEPT ![p].pc = AfterAcquireFailed,
                                  ![p].acquired = "false",
                                  ![p].created = left /\ lock_file = NoLock,
                                  ![p].lockWrites = IF left THEN 1 ELSE 0,
                                  ![p].lockAfterAcq = lock_file',
                                  ![p].lockAtReturn = lock_file']
    /\ UNCHANGED <<ruta, backup_dir, crudVars, pagVars, restVars>>

(***************************************************************************)
(* guardar, lines 204-215, once acquire_lock has returned True.            *)
(***************************************************************************)
\* a guardar that writes without calling backup
AfterExists_NoBackup(exists) == "write"

\* guardar's step after ruta.exists() on line 205 (and again on line 190)
AfterExists(exists) == IF exists THEN "backup" ELSE "write"

\* guardar's step after backup() returned, whether the copy was made or not:
\* backup() catches the error of shutil.copy2 and returns nothing (lines 197-198)
AfterBackup(ok) == "write"

\* line 205: if self.ruta.exists()
ChkExists(p) ==
    /\ proc[p].pc = "chk_exists"
    /\ proc' = [proc EXCEPT ![p].pc = AfterExists(ruta.kind # "none"),
                            ![p].existed = (ruta.kind # "none")]
    /\ UNCHANGED <<lock_file, ruta, backup_dir, crudVars, pagVars, restVars>>

\* backup, lines 192-196: shutil.copy2 succeeds
BackupOk(p) ==
    /\ proc[p].pc = "backup"
    /\ backup_dir' = backup_dir \cup {[by |-> p, content |-> ruta]}
    /\ proc' = [proc EXCEPT ![p].pc = AfterBackup(TRUE),
                            ![p].backupDone = "ok",
                            ![p].steps = Append(@, "backup")]
    /\ UNCHANGED <<lock_file, ruta, crudVars, pagVars, restVars>>

\* backup, lines 197-198: shutil.copy2 raises; the error is logged. The copy
\* may have been started: a partial destination file may be left behind.
BackupFail(p) ==
    /\ proc[p].pc = "backup"
    /\ \E left \in BOOLEAN :
          backup_dir' = IF left
                        THEN backup_dir \cup {[by |-> p, content |-> PartialFile(p)]}
                        ELSE backup_dir
    /\ proc' = [proc EXCEPT ![p].pc = AfterBackup(FALSE),
                            ![p].backupDone = "fail",
                            ![p].steps = Append(@, "backup")]
    /\ UNCHANGED <<lock_file, ruta, crudVars, pagVars, restVars>>

\* lines 207-210: df.to_excel succeeds; then finally: release_lock
WriteOk(p) ==
    /\ proc[p].pc = "write"
    /\ ruta' = DfFile(p)
    /\ proc' = [proc EXCEPT ![p].pc = "rel_check",
                            ![p].wrote = "ok",
                            ![p].overwrote = (ruta.kind # "none"),
                            ![p].steps = Append(@, "write")]
    /\ UNCHANGED <<lock_file, backup_dir, crudVars, pagVars, restVars>>

\* lines 211-213: df.to_excel raises; the file is as it was, or was opened and
\* is left partly written; then finally: release_lock
WriteFail(p) ==
    /\ proc[p].pc = "write"
    /\ \E left \in BOOLEAN :
          /\ ruta' = IF left THEN PartialFile(p) ELSE ruta
          /\ proc' = [proc EXCEPT ![p].pc = "rel_check",
                                  ![p].wrote = "fail",
                                  ![p].overwrote = left /\ ruta.kind # "none",
                                  ![p].steps = Append(@, "write")]
    /\ UNCHANGED <<lock_file, backup_dir, crudVars, pagVars, restVars>>

(***************************************************************************)
(* release_lock, lines 137-142.                                            *)
(***************************************************************************)
\* line 139: if self.lock_file.exists()
RelCheck(p) ==
    /\ proc[p].pc = "rel_check"
    /\ proc' = IF lock_file # NoLock
               THEN [proc EXCEPT ![p].pc = "rel_unlink"]
               ELSE [proc EXCEPT ![p].pc = "done", ![p].lockAtReturn = lock_file]
    /\ UNCHANGED <<lock_file, ruta, backup_dir, crudVars, pagVars, restVars>>

\* a release that deletes the sentinel only when it is the one this process wrote
RelUnlink_OwnOnly(p) ==
    /\ proc[p].pc = "rel_unlink"
    /\ lock_file' = IF lock_file = p THEN NoLock ELSE lock_file
    /\ proc' = [proc EXCEPT ![p].pc = "done",
                            ![p].lockDeletes = IF lock_file = p THEN 1 ELSE 0,
                            ![p].lockAtReturn = lock_file']
    /\ UNCHANGED <<ruta, backup_dir, crudVars, pagVars, restVars>>

\* line 140: unlink deletes the sentinel, or finds it gone (FileNotFoundError,
\* logged on line 142)
RelUnlink(p) ==
    /\ proc[p].pc = "rel_unlink"
    /\ lock_file' = NoLock
    /\ proc' = [proc EXCEPT ![p].pc = "done",
                            ![p].lockDeletes = IF lock_file # NoLock THEN 1 ELSE 0,
                            ![p].unlinkFailed = (lock_file = NoLock),
                            ![p].lockAtReturn = NoLock]
    /\ UNCHANGED <<ruta, backup_dir, crudVars, pagVars, restVars>>

\* lines 141-142: unlink raises and the sentinel stays; the error is logged
RelUnlinkFail(p) ==
    /\ proc[p].pc = "rel_unlink"
    /\ lock_file # NoLock
    /\ proc' = [proc EXCEPT ![p].pc = "done",
                            ![p].unlinkFailed = TRUE,
                            ![p].lockAtReturn = lock_file]
    /\ UNCHANGED <<lock_file, ruta, backup_dir, crudVars, pagVars, restVars>>

\* the operator clears, by hand, a sentinel left by a process that is gone
ClearStale ==
    /\ lock_file = StaleLock
    /\ lock_file' = NoLock
    /\ UNCHANGED <<ruta, backup_dir, proc, crudVars, pagVars, restVars>>

(***************************************************************************)
(* The CRUD loop of run_interactivo, lines 352-466, over the table.        *)
(***************************************************************************)
\* self.columnas: the columns of the table, fixed for the session
columnas == <<"RUT", "Contacto">>
Cols == 1 .. Len(columnas)

\* what the user types at a prompt for a cell (before .strip())
InRut == <<"1", "2", " ", "3", "4", "5", " ", "6", "7", "8", "-", "5">>
InRutK == <<"1", "0", "0", "0", "0", "0", "5", "-", "k">>
InEmail == <<"a", "@", "b", ".", "c", "l", " ">>
InBlank == <<>>
Inputs == {InRut, InRutK, InEmail, InBlank}

\* what the user types at the prompt for the key of a row
KeyDots == <<"1", "2", ".", "3", "4", "5", ".", "6", "7", "8", "-", "5">>
KeyK == <<"1", "0", "0", "0", "0", "0", "5", "K">>
KeyInputs == {KeyDots, KeyK}

\* rows of the file that was loaded carry no typed key
NoTyped == <<"*">>

\* op: the branch taken; clave: the key typed; idx: the index the lookup
\* returned; dup: more than one row matched; multiple: the warning of line 407
\* was shown; warned: the columns whose new value was refused
NoLast == [op |-> "none", clave |-> <<>>, idx |-> 0, dup |-> FALSE, multiple |-> FALSE,
           warned |-> {}]

\* every string the session can hold: what is typed, what the file held, and
\* what .strip() and format_rut make of them
Typed == Inputs \cup KeyInputs
Stripped == {Strip(v) : v \in Typed}
Values == Typed \cup Stripped \cup {format_rut(v) : v \in Stripped}

\* the functions of the validators over Values, computed once
StripOf == [v \in Values |-> Strip(v)]
CleanOf == [v \in Values |-> clean_rut(v)]
FormatOf == [v \in Values |-> format_rut(v)]
ValidOf == [role \in {"rut", "email", "tel"} |->
               [v \in Values |-> CASE role = "rut" -> validar_rut(v)
                                    [] role = "email" -> validar_email(v)
                                    [] role = "tel" -> validar_telefono(v)]]

\* the role whose validator the insert and update loops apply to column col:
\* the if / elif chain of lines 383-390 and 417-429
RoleOf(col) ==
    IF col_rut # 0 /\ col = col_rut THEN "rut"
    ELSE IF col_email # 0 /\ col = col_email THEN "email"
    ELSE IF col_tel # 0 /\ col = col_tel THEN "tel"
    ELSE "none"

\* the roles bound to column col by mapear_columnas_clave
RolesBound(col) ==
    (IF col_rut = col THEN {"rut"} ELSE {})
    \cup (IF col_email = col THEN {"email"} ELSE {})
    \cup (IF col_tel = col THEN {"tel"} ELSE {})

\* a role's validator
Validates(role, v) == IF role = "none" THEN TRUE ELSE ValidOf[role][v]

\* input_validado, lines 85-101, on one line of input: <<accepted, value>>;
\* a line that is not accepted is asked for again
input_validado(entrada, role) ==
    LET valor == StripOf[entrada]
        opcional == role # "rut"
        valor_formateado == IF role = "rut" THEN FormatOf[valor] ELSE valor
    IN  IF opcional /\ valor = <<>> THEN <<TRUE, <<>>>>
        ELSE <<Validates(role, valor_formateado), valor_formateado>>

\* lines 382-391: the value stored for column col when entrada is typed, and
\* whether the prompt accepts it
InsertAccepts(col, entrada) ==
    IF RoleOf(col) = "none" THEN TRUE ELSE input_validado(entrada, RoleOf(col))[1]
InsertValue(col, entrada) ==
    IF RoleOf(col) = "none" THEN StripOf[entrada] ELSE input_validado(entrada, RoleOf(col))[2]

\* lines 379-394: insert. The lines typed are those the prompts accepted.
Insert(entradas) ==
    /\ Len(df) < MaxRows
    /\ \A c \in Cols : InsertAccepts(c, entradas[c])
    /\ df' = Append(df, [cells |-> [c \in Cols |-> InsertValue(c, entradas[c])],
                         typed |-> IF col_rut # 0 THEN entradas[col_rut] ELSE NoTyped])
    /\ last' = [NoLast EXCEPT !.op = "insert"]
    /\ UNCHANGED <<col_rut, col_email, col_tel, saveVars, pagVars, restVars>>

\* a lookup that compares the stored ID as it is with the normalized key
Matches_RawStored(clave) ==
    {i \in 1 .. Len(df) : df[i].cells[col_rut] = CleanOf[StripOf[clave]]}

\* lines 399-401 and 436-438: the rows whose normalized ID equals the normalized key
Matches(clave) ==
    {i \in 1 .. Len(df) : CleanOf[df[i].cells[col_rut]] = CleanOf[StripOf[clave]]}

\* lines 405-408 and 442-443: idx_list[0], the first match (0 when there is none)
FindByKey(clave) ==
    IF Matches(clave) = {} THEN 0
    ELSE CHOOSE i \in Matches(clave) : \A j \in Matches(clave) : i <= j

\* lines 413-430, one column of the update loop: <<new cell, warned>>
UpdateCell(col, valor_actual, entrada) ==
    LET nuevo_valor == StripOf[entrada]
    IN  IF nuevo_valor = <<>> THEN <<valor_actual, FALSE>>
        ELSE IF ~Validates(RoleOf(col), nuevo_valor) THEN <<valor_actual, TRUE>>
        ELSE IF RoleOf(col) = "rut" THEN <<FormatOf[nuevo_valor], FALSE>>
        ELSE <<nuevo_valor, FALSE>>

\* lines 395-432: update of the row found by key
Update(clave, entradas) ==
    /\ col_rut # 0
    /\ FindByKey(clave) # 0
    /\ LET idx == FindByKey(clave)
           row == df[idx]
           cells == [c \in Cols |-> UpdateCell(c, row.cells[c], entradas[c])[1]]
       IN  /\ df' = [df EXCEPT ![idx] =
                        [cells |-> cells,
                         typed |-> IF cells[col_rut] = row.cells[col_rut]
                                   THEN row.typed ELSE entradas[col_rut]]]
           /\ last' = [op |-> "update", clave |-> clave, idx |-> idx,
                       dup |-> Cardinality(Matches(clave)) > 1,
                       multiple |-> Cardinality(Matches(clave)) > 1,
                       warned |-> {c \in Cols : UpdateCell(c, row.cells[c], entradas[c])[2]}]
    /\ UNCHANGED <<col_rut, col_email, col_tel, saveVars, pagVars, restVars>>

\* lines 402-404: update, no row has the key
UpdateNotFound(clave) ==
    /\ col_rut # 0
    /\ FindByKey(clave) = 0
    /\ last' = [NoLast EXCEPT !.op = "update_nf", !.clave = clave]
    /\ UNCHANGED <<col_rut, col_email, col_tel, df, saveVars, pagVars, restVars>>

\* lines 409-411: update, the ID role is not bound
UpdateUnbound ==
    /\ col_rut = 0
    /\ last' = [NoLast EXCEPT !.op = "update_unbound"]
    /\ UNCHANGED <<col_rut, col_email, col_tel, df, saveVars, pagVars, restVars>>

\* a delete that drops the last row, whatever the lookup returned
DropRow_Last(t, idx) == SubSeq(t, 1, Len(t) - 1)

\* a delete that drops the first row, whatever the lookup returned
DropRow_First(t, idx) == Tail(t)

\* line 447: df.drop(idx).reset_index(drop=True)
DropRow(t, idx) == SubSeq(t, 1, idx - 1) \o SubSeq(t, idx + 1, Len(t))

\* lines 433-449: delete of the row found by key, confirmed
Delete(clave) ==
    /\ col_rut # 0
    /\ FindByKey(clave) # 0
    /\ df' = DropRow(df, FindByKey(clave))
    /\ last' = [NoLast EXCEPT !.op = "delete", !.clave = clave, !.idx = FindByKey(clave),
                              !.dup = Cardinality(Matches(clave)) > 1]
    /\ UNCHANGED <<col_rut, col_email, col_tel, saveVars, pagVars, restVars>>

\* lines 450-451: delete, not confirmed
DeleteCancelled(clave) ==
    /\ col_rut # 0
    /\ FindByKey(clave) # 0
    /\ last' = [NoLast EXCEPT !.op = "delete_cancel", !.clave = clave,
                              !.idx = FindByKey(clave)]
    /\ UNCHANGED <<col_rut, col_email, col_tel, df, saveVars, pagVars, restVars>>

\* lines 439-441: delete, no row has the key
DeleteNotFound(clave) ==
    /\ col_rut # 0
    /\ FindByKey(clave) = 0
    /\ last' = [NoLast EXCEPT !.op = "delete_nf", !.clave = clave]
    /\ UNCHANGED <<col_rut, col_email, col_tel, df, saveVars, pagVars, restVars>>

\* lines 452-453: delete, the ID role is not bound
DeleteUnbound ==
    /\ col_rut = 0
    /\ last' = [NoLast EXCEPT !.op = "delete_unbound"]
    /\ UNCHANGED <<col_rut, col_email, col_tel, df, saveVars, pagVars, restVars>>

(***************************************************************************)
(* The table after leer and mapear_columnas_clave.                         *)
(***************************************************************************)
\* cells of the file that was loaded
FileValues == {<<>>, FormatOf[StripOf[InRut]], StripOf[InEmail]}

\* every value of a bound role's column passes the role's validator or is empty
RowValid(cells) ==
    \A c \in Cols : \A role \in RolesBound(c) :
        cells[c] = <<>> \/ Validates(role, cells[c])

TableValid == \A i \in 1 .. Len(df) : RowValid(df[i].cells)

(***************************************************************************)
(* paginar, lines 297-319. The rows of the table are 0 .. total - 1.       *)
(***************************************************************************)
\* a page count that rounds down
PageCount_Floor(total, page_size) == total \div page_size

\* lines 302 and 317: the number of pages
PageCount(total, page_size) == (total + page_size - 1) \div page_size

\* line 306: df.iloc[start:end], the row positions start .. end - 1 that exist
Slice(total, start, end) ==
    LET hi == IF end < total THEN end ELSE total
    IN  IF start >= hi THEN <<>> ELSE [k \in 1 .. hi - start |-> start + k - 1]

PagIdle == [pc |-> "idle", total |-> 0, page_size |-> 0, size0 |-> 0, pages |-> 0,
            stop |-> 0, i |-> 0, shown |-> <<>>, resized |-> FALSE, quit |-> FALSE]

\* lines 298-303: the call; range(pages) is built once, from the first page count
Paginar(total, page_size) ==
    /\ pag.pc = "idle"
    /\ pag' = IF total = 0
              THEN [PagIdle EXCEPT !.pc = "done", !.page_size = page_size,
                                   !.size0 = page_size]
              ELSE [PagIdle EXCEPT !.pc = "show", !.total = total,
                                   !.page_size = page_size, !.size0 = page_size,
                                   !.pages = PageCount(total, page_size),
                                   !.stop = PageCount(total, page_size)]
    /\ UNCHANGED <<saveVars, crudVars, restVars>>

\* a loop that compares i with the current page count after each iteration
PagNext_Recount(g) ==
    IF g.i + 1 < g.pages THEN [g EXCEPT !.pc = "show", !.i = g.i + 1]
    ELSE [g EXCEPT !.pc = "done"]

\* after an iteration: the next value of range(stop), or the end of the loop
PagNext(g) ==
    IF g.i + 1 < g.stop THEN [g EXCEPT !.pc = "show", !.i = g.i + 1]
    ELSE [g EXCEPT !.pc = "done"]

\* lines 304-309: page i is displayed; the prompt follows unless it is the last
PagShow ==
    /\ pag.pc = "show"
    /\ LET start == pag.i * pag.page_size
           end == start + pag.page_size
           g == [pag EXCEPT !.shown = Append(@, Slice(pag.total, start, end))]
       IN  pag' = IF pag.i < pag.pages - 1 THEN [g EXCEPT !.pc = "ask"] ELSE PagNext(g)
    /\ UNCHANGED <<saveVars, crudVars, restVars>>

\* line 310: Enter (or any other answer): the next page
PagEnter ==
    /\ pag.pc = "ask"
    /\ pag' = PagNext(pag)
    /\ UNCHANGED <<saveVars, crudVars, restVars>>

\* lines 311-312: 'q'
PagQuit ==
    /\ pag.pc = "ask"
    /\ pag' = [pag EXCEPT !.pc = "done", !.quit = TRUE]
    /\ UNCHANGED <<saveVars, crudVars, restVars>>

\* lines 313-319: 's' and a valid new size. i = -1 is overwritten by the next
\* value of range(stop), which was built from the first page count.
PagResize(nuevo_size) ==
    /\ pag.pc = "ask"
    /\ nuevo_size > 0
    /\ pag' = PagNext([pag EXCEPT !.page_size = nuevo_size,
                                  !.pages = PageCount(pag.total, nuevo_size),
                                  !.resized = TRUE])
    /\ UNCHANGED <<saveVars, crudVars, restVars>>

\* lines 313-315: 's' and a size that is no positive number: the next page
PagResizeInvalid ==
    /\ pag.pc = "ask"
    /\ pag' = PagNext(pag)
    /\ UNCHANGED <<saveVars, crudVars, restVars>>

(***************************************************************************)
(* mapear_columnas_clave, lines 244-283. A binding is the position of the  *)
(* bound column in cols, 0 for None.                                       *)
(***************************************************************************)
\* the roles, in the order of lines 267, 273 and 279
Roles == <<"rut", "email", "tel">>

\* the patterns of lines 267, 273 and 279
patrones(tipo) ==
    CASE tipo = "rut" -> {<<"r", "u", "t">>}
      [] tipo = "email" -> {<<"e", "m", "a", "i", "l">>, <<"c", "o", "r", "r", "e", "o">>}
      [] tipo = "tel" -> {<<"t", "e", "l">>, <<"f", "o", "n", "o">>,
                          <<"t", "e", "l", "e", "f", "o", "n", "o">>}

\* the column names of the tables that are mapped
ColRUT == <<"R", "U", "T">>
ColRut2 == <<"r", "u", "t", "2">>
ColEmail == <<"E", "m", "a", "i", "l">>
ColTel == <<"T", "e", "l">>
ColFono == <<"f", "o", "n", "o">>
ColN == <<"N">>
ColumnLists ==
    {<<ColRUT, ColRut2, ColEmail, ColN>>, <<ColN, ColTel, ColFono, ColRUT>>, <<ColN>>}

\* what is typed at the prompt of line 253, and at the prompt of line 258
Respuestas == {<<"s">>, <<" ", "S">>, <<"n">>, <<>>}
Nombres == {<<>>, <<" ">>, ColRUT, <<" ">> \o ColRUT \o <<" ">>, <<"r", "u", "t">>,
            ColEmail, ColN, <<"X">>}

\* line 249: the positions, from position from on, of the columns of cols
\* whose name holds one of the patterns, whatever the case
RECURSIVE candidatos_from(_, _, _)
candidatos_from(cols, tipo, from) ==
    IF from > Len(cols) THEN <<>>
    ELSE (IF \E pat \in patrones(tipo) : Contains(Lower(pat), Lower(cols[from]))
          THEN <<from>> ELSE <<>>)
         \o candidatos_from(cols, tipo, from + 1)

candidatos(cols, tipo) == candidatos_from(cols, tipo, 1)

\* the position of the column named name in cols, 0 when there is none
PosOf(name, cols) ==
    IF \E i \in 1 .. Len(cols) : cols[i] = name
    THEN CHOOSE i \in 1 .. Len(cols) : cols[i] = name
    ELSE 0

\* a binding by name that takes the name whatever its case
elegido_por_nombre_AnyCase(resp, cols) ==
    IF \E i \in 1 .. Len(cols) : Lower(cols[i]) = Lower(Strip(resp))
    THEN CHOOSE i \in 1 .. Len(cols) : Lower(cols[i]) = Lower(Strip(resp))
    ELSE 0

\* lines 258-264: the binding made of the name typed
elegido_por_nombre(resp, cols) ==
    IF Strip(resp) # <<>> THEN PosOf(Strip(resp), cols) ELSE 0

MapIdle == [pc |-> "idle", cols |-> <<>>, tipo |-> 0, candidatos |-> <<>>, k |-> 0,
            asked |-> <<>>, named |-> <<>>]

\* the start of detectar_y_preguntar for role number tipo (lines 249-252), or
\* the end of mapear_columnas_clave after the last role
MapStart(m, tipo) ==
    IF tipo > Len(Roles) THEN [m EXCEPT !.pc = "done", !.tipo = tipo, !.candidatos = <<>>,
                                        !.k = 0]
    ELSE LET cand == candidatos(m.cols, Roles[tipo])
         IN  [m EXCEPT !.pc = IF cand # <<>> THEN "ask" ELSE "name",
                       !.tipo = tipo, !.candidatos = cand, !.k = 1]

\* lines 267, 273, 279: the assignment of what detectar_y_preguntar returned
Bind(tipo, elegido) ==
    /\ col_rut' = IF Roles[tipo] = "rut" THEN elegido ELSE col_rut
    /\ col_email' = IF Roles[tipo] = "email" THEN elegido ELSE col_email
    /\ col_tel' = IF Roles[tipo] = "tel" THEN elegido ELSE col_tel

\* lines 245-246: the call, on a table whose columns are cols
Mapear(cols) ==
    /\ map.pc = "idle"
    /\ map' = MapStart([MapIdle EXCEPT !.cols = cols], 1)
    /\ UNCHANGED <<saveVars, crudVars, pagVars, loop, call>>

\* lines 252-256: the answer about candidate k. 's' binds it and ends the
\* loop; any other answer goes to the next candidate, or to the prompt of
\* line 258 after the last
Responder(resp) ==
    /\ map.pc = "ask"
    /\ LET c == map.candidatos[map.k]
           m == [map EXCEPT !.asked = Append(@, [tipo |-> Roles[map.tipo], col |-> c,
                                                 resp |-> resp])]
       IN  IF Lower(Strip(resp)) = <<"s">>
           THEN /\ map' = MapStart(m, map.tipo + 1)
                /\ Bind(map.tipo, c)
           ELSE /\ map' = IF map.k < Len(map.candidatos)
                          THEN [m EXCEPT !.k = map.k + 1]
                          ELSE [m EXCEPT !.pc = "name"]
                /\ UNCHANGED <<col_rut, col_email, col_tel>>
    /\ UNCHANGED <<saveVars, df, last, pagVars, loop, call>>

\* lines 257-265: no candidate was confirmed; the name typed
Nombrar(resp) ==
    /\ map.pc = "name"
    /\ map' = MapStart([map EXCEPT !.named = Append(@, [tipo |-> Roles[map.tipo],
                                                        resp |-> resp])],
                       map.tipo + 1)
    /\ Bind(map.tipo, elegido_por_nombre(resp, map.cols))
    /\ UNCHANGED <<saveVars, df, last, pagVars, loop, call>>

(***************************************************************************)
(* The menu of run_interactivo, lines 352-466: one session, whose guardar  *)
(* is that of process Session.                                             *)
(***************************************************************************)
\* the process of this session
Session == 1

NoOption == <<"*">>

\* in the while loop of line 352, guardar not called
LoopStart == [at |-> "menu", guardar |-> NoOption]

\* what is typed at the prompt of line 365
Opciones ==
    {<<"1">>, <<"v">>, <<"2">>, <<"b">>, <<"3">>, <<"a">>, <<"4">>, <<"u">>, <<"5">>,
     <<"d">>, <<"6">>, <<"g">>, <<" ", "G">>, <<"h">>, <<"?">>, <<"q">>, <<"Q", " ">>,
     <<"x">>, <<>>}

\* a menu whose 'q' saves
Handler_QuitSaves(opcion) ==
    LET o == Lower(Strip(opcion))
    IN  CASE o \in {<<"1">>, <<"v">>} -> "ver"
          [] o \in {<<"2">>, <<"b">>} -> "buscar"
          [] o \in {<<"3">>, <<"a">>} -> "agregar"
          [] o \in {<<"4">>, <<"u">>} -> "actualizar"
          [] o \in {<<"5">>, <<"d">>} -> "eliminar"
          [] o \in {<<"6">>, <<"g">>, <<"q">>} -> "guardar"
          [] o \in {<<"h">>, <<"?">>} -> "ayuda"
          [] OTHER -> "invalida"

\* lines 365-466: the branch of the if / elif chain taken for the option typed
Handler(opcion) ==
    LET o == Lower(Strip(opcion))
    IN  CASE o \in {<<"1">>, <<"v">>} -> "ver"
          [] o \in {<<"2">>, <<"b">>} -> "buscar"
          [] o \in {<<"3">>, <<"a">>} -> "agregar"
          [] o \in {<<"4">>, <<"u">>} -> "actualizar"
          [] o \in {<<"5">>, <<"d">>} -> "eliminar"
          [] o \in {<<"6">>, <<"g">>} -> "guardar"
          [] o \in {<<"h">>, <<"?">>} -> "ayuda"
          [] o = <<"q">> -> "salir"
          [] OTHER -> "invalida"

\* at the prompt of line 365
InMenu == loop.at = "menu" /\ proc[Session].pc = "idle"

\* what is typed for a new or updated row, for a key and for a search
SesEntradas == {<<InRut, InEmail>>, <<InRutK, InBlank>>}
SesCriterios == {<<>>, <<"c", "l", " ">>, <<"x">>}

\* lines 367-368: paginar(df) displays the table
SesVer(opcion) ==
    /\ InMenu
    /\ Handler(opcion) = "ver"
    /\ last' = [NoLast EXCEPT !.op = "ver"]
    /\ UNCHANGED <<saveVars, col_rut, col_email, col_tel, df, pagVars, restVars>>

\* lines 369-378: buscar(df, criterio) unless the criterion is blank; the
\* result is displayed
SesBuscar(opcion, criterio, transliterate) ==
    /\ InMenu
    /\ Handler(opcion) = "buscar"
    /\ LET filtrado == buscar([i \in 1 .. Len(df) |-> df[i].cells], Strip(criterio),
                              transliterate)
       IN  last' = [NoLast EXCEPT !.op = IF Strip(criterio) = <<>> THEN "buscar_blank"
                                         ELSE IF filtrado = <<>> THEN "buscar_empty"
                                         ELSE "buscar"]
    /\ UNCHANGED <<saveVars, col_rut, col_email, col_tel, df, pagVars, restVars>>

\* lines 379-394
SesAgregar(opcion, entradas) ==
    /\ InMenu
    /\ Handler(opcion) = "agregar"
    /\ Insert(entradas)

\* lines 395-432
SesActualizar(opcion, clave, entradas) ==
    /\ InMenu
    /\ Handler(opcion) = "actualizar"
    /\ \/ Update(clave, entradas)
       \/ UpdateNotFound(clave)
       \/ UpdateUnbound

\* lines 433-453
SesEliminar(opcion, clave) ==
    /\ InMenu
    /\ Handler(opcion) = "eliminar"
    /\ \/ Delete(clave)
       \/ DeleteCancelled(clave)
       \/ DeleteNotFound(clave)
       \/ DeleteUnbound

\* lines 454-455: guardar(df) is called
SesGuardar(opcion) ==
    /\ InMenu
    /\ Handler(opcion) = "guardar"
    /\ proc' = guardar_entry(Session)
    /\ loop' = [loop EXCEPT !.guardar = opcion]
    /\ UNCHANGED <<lock_file, ruta, backup_dir, crudVars, pagVars, call, map>>

\* a loop that ends only after a save that wrote the file, and otherwise
\* shows the menu again
SesSalirGuardado_OnlySaved ==
    /\ loop.at = "menu"
    /\ proc[Session].pc = "done"
    /\ IF proc[Session].wrote = "ok"
       THEN /\ loop' = [loop EXCEPT !.at = "exit"]
            /\ proc' = proc
       ELSE /\ loop' = loop
            /\ proc' = [proc EXCEPT ![Session] = ProcInit]
    /\ UNCHANGED <<lock_file, ruta, backup_dir, crudVars, pagVars, call, map>>

\* lines 456-457: guardar has returned; break
SesSalirGuardado ==
    /\ loop.at = "menu"
    /\ proc[Session].pc = "done"
    /\ loop' = [loop EXCEPT !.at = "exit"]
    /\ UNCHANGED <<saveVars, crudVars, pagVars, call, map>>

\* lines 458-459
SesAyuda(opcion) ==
    /\ InMenu
    /\ Handler(opcion) = "ayuda"
    /\ last' = [NoLast EXCEPT !.op = "ayuda"]
    /\ UNCHANGED <<saveVars, col_rut, col_email, col_tel, df, pagVars, restVars>>

\* lines 460-464: 'q', and the answer to "Salir sin guardar?"
SesSalir(opcion, confirmar) ==
    /\ InMenu
    /\ Handler(opcion) = "salir"
    /\ IF Lower(Strip(confirmar)) = <<"s">>
       THEN /\ loop' = [loop EXCEPT !.at = "exit"]
            /\ last' = [NoLast EXCEPT !.op = "salir"]
       ELSE /\ loop' = loop
            /\ last' = [NoLast EXCEPT !.op = "salir_no"]
    /\ UNCHANGED <<saveVars, col_rut, col_email, col_tel, df, pagVars, call, map>>

\* lines 465-466
SesInvalida(opcion) ==
    /\ InMenu
    /\ Handler(opcion) = "invalida"
    /\ last' = [NoLast EXCEPT !.op = "invalida"]
    /\ UNCHANGED <<saveVars, col_rut, col_email, col_tel, df, pagVars, restVars>>

\* guardar of this session, lines 200-215, step by step
SesGuardarStep ==
    /\ loop.at = "menu"
    /\ \/ AcqSeeAbsent(Session)
       \/ AcqSeePresent(Session)
       \/ AcqTimeout(Session)
       \/ AcqSleep(Session)
       \/ AcqWriteOk(Session)
       \/ AcqWriteFail(Session)
       \/ ChkExists(Session)
       \/ BackupOk(Session)
       \/ BackupFail(Session)
       \/ WriteOk(Session)
       \/ WriteFail(Session)
       \/ RelCheck(Session)
       \/ RelUnlink(Session)
       \/ RelUnlinkFail(Session)

(***************************************************************************)
(* Calls of the functions of the validators and of buscar, on their own.   *)
(***************************************************************************)
NoCall == [fn |-> "none", arg |-> <<>>, out |-> <<>>]

\* the digits before the check character: of 7 and 8 digits, and too short
\* and too long
RutNums ==
    {<<"1", "2", "3", "4", "5", "6", "7">>,
     <<"1", "2", "3", "4", "5", "6", "7", "8">>,
     <<"1", "0", "0", "0", "0", "0", "5">>,
     <<"1", "0", "0", "0", "0", "1", "3">>,
     <<"1", "2", "3", "4", "5", "6">>,
     <<"1", "2", "3", "4", "5", "6", "7", "8", "9">>}

\* the last character typed
RutDvs == Digits \cup {"K", "k"}

\* three ways of typing an ID
Plain(num, dv) == num \o <<dv>>
Hyphen(num, dv) == num \o <<"-", dv>>
Dotted(num, dv) ==
    <<" ">> \o SubSeq(num, 1, 2) \o <<".">> \o SubSeq(num, 3, Len(num)) \o <<"-", dv, " ">>

\* the strings given to clean_rut, format_rut and validar_rut
RutTexts ==
    {Plain(num, dv) : num \in RutNums, dv \in RutDvs}
    \cup {Hyphen(num, dv) : num \in RutNums, dv \in RutDvs}
    \cup {Dotted(num, dv) : num \in RutNums, dv \in RutDvs}
    \cup {<<>>, <<"-">>, <<"k">>, <<"kra">>, <<"a", ".", "b", "-", "c">>,
          <<"1", "2", "3", "4", "5", "6", "a", "8", "-", "5">>,
          <<"1", "2", "3", "4", "5", "6", "7", "kra">>}

\* the cells of the tables given to buscar, and the criteria
BuscarCells == {<<>>, <<"b", "A_acute">>, <<"b", "a">>}
BuscarRows == [Cols -> BuscarCells]
BuscarTables == UNION {[1 .. n -> BuscarRows] : n \in 0 .. MaxRows}
Criterios ==
    {<<>>, <<" ">>, <<"a">>, <<"A">>, <<"a_acute">>, <<"a", " ">>, <<"c">>, <<"a", "b">>}

\* clean_rut(rut), lines 144-147
CallCleanRut(rut) ==
    /\ call = NoCall
    /\ call' = [fn |-> "clean_rut", arg |-> rut, out |-> clean_rut(rut)]
    /\ UNCHANGED <<saveVars, crudVars, pagVars, loop, map>>

\* validar_rut(rut), lines 217-235
CallValidarRut(rut) ==
    /\ call = NoCall
    /\ call' = [fn |-> "validar_rut", arg |-> rut, out |-> validar_rut(rut)]
    /\ UNCHANGED <<saveVars, crudVars, pagVars, loop, map>>

\* validar_rut(format_rut(clean_rut(x))) of an x that is normalized and has
\* the shape of an ID
CallRoundTrip(x) ==
    /\ call = NoCall
    /\ clean_rut(x) = x
    /\ rut_shape(x)
    /\ call' = [fn |-> "round_trip", arg |-> x,
                out |-> [formatted |-> format_rut(clean_rut(x)),
                         valid |-> validar_rut(format_rut(clean_rut(x)))]]
    /\ UNCHANGED <<saveVars, crudVars, pagVars, loop, map>>

\* buscar(t, criterio), lines 285-295. Of a table without rows df.apply
\* returns, depending on the version of pandas, a copy of the table or an
\* empty Series of floats, and df[mask] then has the table's columns or none.
CallBuscar(t, criterio, transliterate) ==
    /\ call = NoCall
    /\ \E keeps \in (IF Len(t) = 0 THEN BOOLEAN ELSE {TRUE}) :
          LET index == buscar(t, criterio, transliterate)
          IN  call' = [fn |-> "buscar",
                       arg |-> [df |-> t, criterio |-> criterio, unidecode |-> transliterate],
                       out |-> [columns |-> IF keeps THEN columnas ELSE <<>>,
                                index |-> index,
                                rows |-> [k \in 1 .. Len(index) |-> t[index[k]]]]]
    /\ UNCHANGED <<saveVars, crudVars, pagVars, loop, map>>

InitSave ==
    /\ lock_file \in {NoLock, StaleLock}
    /\ ruta \in {NoFile, OrigFile}
    /\ backup_dir = {}
    /\ proc = [p \in Procs |-> ProcInit]
    /\ col_rut = 0 /\ col_email = 0 /\ col_tel = 0
    /\ df = <<>>
    /\ last = NoLast
    /\ pag = PagIdle
    /\ loop = LoopStart
    /\ call = NoCall
    /\ map = MapIdle

NextSave ==
    \/ \E p \in Procs : CallGuardar(p)
    \/ \E p \in Procs : AcqSeeAbsent(p)
    \/ \E p \in Procs : AcqSeePresent(p)
    \/ \E p \in Procs : AcqTimeout(p)
    \/ \E p \in Procs : AcqSleep(p)
    \/ \E p \in Procs : AcqWriteOk(p)
    \/ \E p \in Procs : AcqWriteFail(p)
    \/ \E p \in Procs : ChkExists(p)
    \/ \E p \in Procs : BackupOk(p)
    \/ \E p \in Procs : BackupFail(p)
    \/ \E p \in Procs : WriteOk(p)
    \/ \E p \in Procs : WriteFail(p)
    \/ \E p \in Procs : RelCheck(p)
    \/ \E p \in Procs : RelUnlink(p)
    \/ \E p \in Procs : RelUnlinkFail(p)
    \/ ClearStale

\* the processes saving the same backing file
SpecSave == InitSave /\ [][NextSave]_vars

(***************************************************************************)
(* The claims about the save path, checked under SpecSave.                 *)
(***************************************************************************)
Returned(p) == proc[p].pc = "done"

\* C1: in guardar, when the backing file exists and the backup copy fails, the
\* backing file is not overwritten: a save whose backup failed never changes
\* a backing file that existed.
C1_FailClosedBackup ==
    \A p \in Procs : proc[p].backupDone = "fail" => ~proc[p].overwrote

\* C2: a guardar call that created the sentinel returns with the sentinel gone
\* unless the deletion failed, and guardar returns with a sentinel present
\* (deletion not having failed) only after a timeout on a sentinel it did not
\* create.
C2_SentinelRemovedOnReturn ==
    \A p \in Procs :
        Returned(p) /\ ~proc[p].unlinkFailed =>
            /\ proc[p].created => proc[p].lockAtReturn = NoLock
            /\ proc[p].lockAtReturn # NoLock => proc[p].timedOut /\ ~proc[p].created

\* C3: when acquire_lock times out, guardar has returned: it made no backup,
\* did not write the backing file, and neither wrote nor deleted the sentinel
\* it found.
C3_TimeoutAbortsSave ==
    \A p \in Procs :
        proc[p].timedOut =>
            /\ Returned(p)
            /\ proc[p].acquired = "false"
            /\ proc[p].elapsed > LockTimeout
            /\ proc[p].lastSeen = "present"
            /\ proc[p].lockAtReturn # NoLock
            /\ proc[p].wrote = "none" /\ ~proc[p].overwrote /\ ruta.by # p
            /\ proc[p].backupDone = "none" /\ \A b \in backup_dir : b.by # p
            /\ proc[p].steps = <<>>
            /\ proc[p].lockWrites = 0 /\ proc[p].lockDeletes = 0 /\ lock_file # p

\* C3, its case: a process timed out on the sentinel of a process that is gone,
\* and the sentinel is still there
C3_Witness ==
    \E p \in Procs : proc[p].timedOut /\ Returned(p) /\ lock_file = StaleLock

\* C4 as stated: acquire_lock returns True at once when it finds no sentinel
\* (and the sentinel exists then), and otherwise returns only once the sentinel
\* was seen gone (True, sentinel created) or after more than lock_timeout
\* seconds (False); it never returns True having last seen the sentinel.
C4_AcquireAsStated ==
    \A p \in Procs :
        proc[p].acquired # "none" =>
            /\ proc[p].firstSeen = "absent" => proc[p].slept = 0
            /\ \/ /\ proc[p].lastSeen = "absent"
                  /\ proc[p].acquired = "true"
                  /\ proc[p].lockAfterAcq = p
               \/ /\ proc[p].lastSeen = "present"
                  /\ proc[p].acquired = "false"
                  /\ proc[p].elapsed > LockTimeout

\* C4 amended: as stated, except that acquire_lock, having seen the sentinel
\* gone, returns False at once when writing the sentinel fails (lines 133-135).
C4_AcquireAmended ==
    \A p \in Procs :
        proc[p].acquired # "none" =>
            /\ proc[p].firstSeen = "absent" => proc[p].slept = 0
            /\ \/ /\ proc[p].lastSeen = "absent"
                  /\ proc[p].acquired = "true"
                  /\ proc[p].lockAfterAcq = p
               \/ /\ proc[p].lastSeen = "absent"
                  /\ proc[p].acquired = "false"
                  /\ ~proc[p].timedOut
               \/ /\ proc[p].lastSeen = "present"
                  /\ proc[p].acquired = "false"
                  /\ proc[p].timedOut
                  /\ proc[p].elapsed > LockTimeout

\* C4, its case: a process waited for the sentinel to go and then acquired,
\* and another found no sentinel and could not write it
C4_Witness ==
    \E p, q \in Procs :
        /\ proc[p].acquired = "true" /\ proc[p].slept > 0
        /\ proc[q].acquired = "false" /\ ~proc[q].timedOut /\ proc[q].slept = 0

\* C5 as stated: a save of an existing backing file takes the backup, then
\* acquires the lock, then writes.
C5_BackupLockWrite ==
    \A p \in Procs :
        proc[p].existed /\ proc[p].wrote # "none" =>
            proc[p].steps = <<"backup", "lock", "write">>

\* C5 amended: a save of an existing backing file acquires the lock, then
\* takes the backup, then writes; the write never comes before the other two.
C5_LockBackupWrite ==
    \A p \in Procs :
        /\ proc[p].existed /\ proc[p].wrote # "none" =>
              proc[p].steps = <<"lock", "backup", "write">>
        /\ proc[p].existed =>
              proc[p].steps \in {<<"lock">>, <<"lock", "backup">>, <<"lock", "backup", "write">>}

\* C5, its case: a save of an existing backing file has written
C5_Witness ==
    \E p \in Procs :
        proc[p].existed /\ proc[p].wrote = "ok" /\ proc[p].backupDone = "ok" /\ Returned(p)

(***************************************************************************)
(* The claims about the CRUD loop, checked under SpecCrud.                 *)
(***************************************************************************)
NormKey(clave) == CleanOf[StripOf[clave]]
NormId(i) == CleanOf[df[i].cells[col_rut]]

\* C6: after any sequence of insert, update and delete, every value in a bound
\* role's column passes that role's validator or is empty, and every ID written
\* (typed at insert, or at an update of the ID) is non-empty, for every binding,
\* two roles bound to one column included.
C6_StoredValuesValid ==
    /\ TableValid
    /\ col_rut # 0 =>
          \A i \in 1 .. Len(df) : df[i].typed # NoTyped => df[i].cells[col_rut] # <<>>

\* C7: in an update, a new value that fails the validator of a role bound to
\* its column leaves the cell as it was, with a warning; a blank entry leaves
\* the cell as it was; every other entry is applied; no other row changes.
C7_RejectAndRetain ==
    [][\A clave \in KeyInputs : \A entradas \in [Cols -> Inputs] :
          Update(clave, entradas) =>
              LET idx == FindByKey(clave)
              IN  /\ Len(df') = Len(df)
                  /\ \A j \in 1 .. Len(df) : j # idx => df'[j] = df[j]
                  /\ \A c \in Cols :
                        LET v == StripOf[entradas[c]]
                            kept == df'[idx].cells[c] = df[idx].cells[c]
                        IN  IF v = <<>> THEN kept /\ c \notin last'.warned
                            ELSE IF \E role \in RolesBound(c) : ~Validates(role, v)
                                 THEN kept /\ c \in last'.warned
                            ELSE /\ c \notin last'.warned
                                 /\ df'[idx].cells[c] = IF c = col_rut THEN FormatOf[v] ELSE v
      ]_vars

\* C8 as stated: a lookup by the ID typed for a row, in any formatting that
\* normalizes to the same string, returns that row's current index.
C8_LookupReturnsRow ==
    col_rut # 0 =>
        \A i \in 1 .. Len(df) : \A clave \in Typed :
            df[i].typed # NoTyped /\ NormKey(clave) = NormKey(df[i].typed) =>
                FindByKey(clave) = i

\* C8 amended: the lookup finds a row with the same normalized ID and returns
\* the lowest index among the rows with that normalized ID: the row's own
\* current index when no row before it has the same normalized ID.
C8_LookupReturnsFirstMatch ==
    col_rut # 0 =>
        \A i \in 1 .. Len(df) : \A clave \in Typed :
            df[i].typed # NoTyped /\ NormKey(clave) = NormKey(df[i].typed) =>
                LET idx == FindByKey(clave)
                IN  /\ idx \in 1 .. i
                    /\ NormId(idx) = NormKey(clave)
                    /\ (\A j \in 1 .. i - 1 : NormId(j) # NormKey(clave)) => idx = i

\* C8, its case: after an update of the first row, the second row, whose ID
\* was typed with spaces, is returned by a lookup with the ID typed with dots
C8_Witness ==
    /\ col_rut # 0
    /\ last.op = "update" /\ last.idx = 1
    /\ Len(df) = 2
    /\ df[2].typed = InRut
    /\ FindByKey(KeyDots) = 2

\* C9 as stated: after a confirmed delete of the row found by a key, the next
\* lookup of that key finds no row and changes nothing.
C9_DeletedKeyNotFound ==
    last.op = "delete" =>
        /\ FindByKey(last.clave) = 0
        /\ ~ENABLED Delete(last.clave)
        /\ ~ENABLED (\E entradas \in [Cols -> Inputs] : Update(last.clave, entradas))

\* C9 amended: after a confirmed delete of the row found by a key, the next
\* lookup of that key finds no row and changes nothing if no other row had the
\* same normalized ID; if one had, the lookup finds the first of them, which is
\* at or after the place of the deleted row.
C9_DeletedKeyNotFoundUnlessDuplicate ==
    last.op = "delete" =>
        IF last.dup
        THEN FindByKey(last.clave) >= last.idx
        ELSE /\ FindByKey(last.clave) = 0
             /\ ~ENABLED Delete(last.clave)
             /\ ~ENABLED (\E entradas \in [Cols -> Inputs] : Update(last.clave, entradas))

\* C9, its case: the row found by a key was deleted from a table that keeps
\* another row, and the key is no longer found
C9_Witness ==
    last.op = "delete" /\ ~last.dup /\ Len(df) >= 1 /\ FindByKey(last.clave) = 0

(***************************************************************************)
(* The claims about paginar, checked under SpecPag.                        *)
(***************************************************************************)
\* the least n with n * page_size >= total
CeilDiv(total, page_size) ==
    CHOOSE n \in 0 .. total : n * page_size >= total /\ (n = 0 \/ (n - 1) * page_size < total)

RECURSIVE Concat(_)
Concat(pages) == IF pages = <<>> THEN <<>> ELSE Head(pages) \o Concat(Tail(pages))

\* the rows lo .. hi - 1
RowsFromTo(lo, hi) == [k \in 1 .. hi - lo |-> lo + k - 1]

Min(a, b) == IF a < b THEN a ELSE b

\* C10: while the size is not changed, the page displayed as page i holds the
\* rows i*pageSize .. min((i+1)*pageSize, total) - 1; the page count is
\* ceil(total / pageSize); and when the user has advanced through all pages
\* the pages displayed, concatenated, are the table.
C10_PagesPartitionTable ==
    pag.pc # "idle" /\ pag.total > 0 /\ ~pag.resized =>
        /\ pag.pages = CeilDiv(pag.total, pag.page_size)
        /\ \A k \in 1 .. Len(pag.shown) :
              pag.shown[k] = RowsFromTo((k - 1) * pag.page_size,
                                        Min(k * pag.page_size, pag.total))
        /\ pag.pc = "done" /\ ~pag.quit =>
              /\ Len(pag.shown) = CeilDiv(pag.total, pag.page_size)
              /\ Concat(pag.shown) = RowsFromTo(0, pag.total)

\* C10, its case: all pages of a table whose last page is not full were shown
C10_Witness ==
    /\ pag.pc = "done" /\ ~pag.quit /\ ~pag.resized
    /\ pag.total = 5 /\ pag.page_size = 2 /\ Len(pag.shown) = 3

\* The session after leer and mapear_columnas_clave. Any column can be named
\* for any role (lines 258-261), so two roles can name the same column; of
\* these bindings the model takes those with the ID role on the first column
\* or unbound, and the PHONE role on the second column or unbound. The table
\* is empty or holds one row of the file.
InitCrud ==
    /\ lock_file = NoLock
    /\ ruta = OrigFile
    /\ backup_dir = {}
    /\ proc = [p \in Procs |-> ProcInit]
    /\ col_rut \in {0, 1}
    /\ col_email \in {0, 1, 2}
    /\ col_tel \in {0, 2}
    /\ df \in {<<>>} \cup {<<[cells |-> cells, typed |-> NoTyped]>> :
                               cells \in {x \in [Cols -> FileValues] : RowValid(x)}}
    /\ last = NoLast
    /\ pag = PagIdle
    /\ loop = LoopStart
    /\ call = NoCall
    /\ map = MapIdle

NextCrud ==
    \/ \E entradas \in [Cols -> Inputs] : Insert(entradas)
    \/ \E clave \in KeyInputs : \E entradas \in [Cols -> Inputs] : Update(clave, entradas)
    \/ \E clave \in KeyInputs : UpdateNotFound(clave)
    \/ UpdateUnbound
    \/ \E clave \in KeyInputs : Delete(clave)
    \/ \E clave \in KeyInputs : DeleteCancelled(clave)
    \/ \E clave \in KeyInputs : DeleteNotFound(clave)
    \/ DeleteUnbound

\* one session of the CRUD loop
SpecCrud == InitCrud /\ [][NextCrud]_vars

InitPag ==
    /\ lock_file = NoLock
    /\ ruta = OrigFile
    /\ backup_dir = {}
    /\ proc = [p \in Procs |-> ProcInit]
    /\ col_rut = 0 /\ col_email = 0 /\ col_tel = 0
    /\ df = <<>>
    /\ last = NoLast
    /\ pag = PagIdle
    /\ loop = LoopStart
    /\ call = NoCall
    /\ map = MapIdle

NextPag ==
    \/ \E total \in 0 .. MaxTotal : \E page_size \in 1 .. MaxPageSize : Paginar(total, page_size)
    \/ PagShow
    \/ PagEnter
    \/ PagQuit
    \/ \E nuevo_size \in 1 .. MaxPageSize : PagResize(nuevo_size)
    \/ PagResizeInvalid

\* one call of paginar
SpecPag == InitPag /\ [][NextPag]_vars

\* lines 310 and 314: an answer of the user to a prompt of paginar
PagAnswer ==
    \/ PagEnter
    \/ PagQuit
    \/ \E nuevo_size \in 1 .. MaxPageSize : PagResize(nuevo_size)
    \/ PagResizeInvalid

\* one call of paginar in which the loop body runs on (lines 304-309) and
\* every input() returns (lines 310 and 314)
SpecPagLive == SpecPag /\ WF_vars(PagShow) /\ WF_vars(PagAnswer)

\* The session after leer and mapear_columnas_clave: the backing file exists,
\* a sentinel may have been left by a process that is gone, the ID role is
\* bound to the first column and the EMAIL role to the second.
InitSession ==
    /\ lock_file \in {NoLock, StaleLock}
    /\ ruta = OrigFile
    /\ backup_dir = {}
    /\ proc = [p \in Procs |-> ProcInit]
    /\ col_rut = 1
    /\ col_email = 2
    /\ col_tel = 0
    /\ df = <<>>
    /\ last = NoLast
    /\ pag = PagIdle
    /\ loop = LoopStart
    /\ call = NoCall
    /\ map = MapIdle

NextSession ==
    \/ \E opcion \in Opciones : SesVer(opcion)
    \/ \E opcion \in Opciones : \E criterio \in SesCriterios : \E transliterate \in BOOLEAN :
          SesBuscar(opcion, criterio, transliterate)
    \/ \E opcion \in Opciones : \E entradas \in SesEntradas : SesAgregar(opcion, entradas)
    \/ \E opcion \in Opciones : \E clave \in KeyInputs : \E entradas \in SesEntradas :
          SesActualizar(opcion, clave, entradas)
    \/ \E opcion \in Opciones : \E clave \in KeyInputs : SesEliminar(opcion, clave)
    \/ \E opcion \in Opciones : SesGuardar(opcion)
    \/ SesGuardarStep
    \/ SesSalirGuardado
    \/ \E opcion \in Opciones : SesAyuda(opcion)
    \/ \E opcion \in Opciones : \E confirmar \in Respuestas : SesSalir(opcion, confirmar)
    \/ \E opcion \in Opciones : SesInvalida(opcion)

\* one session of run_interactivo, from the menu to the exit
SpecSession == InitSession /\ [][NextSession]_vars

\* a session in which guardar, once called, runs on (time.sleep(1) of line
\* 129 returns, lines 200-215) and the statements after it are executed
\* (lines 456-457)
SpecSessionLive ==
    SpecSession /\ WF_vars(SesGuardarStep) /\ WF_vars(SesSalirGuardado)

InitFn ==
    /\ lock_file = NoLock
    /\ ruta = OrigFile
    /\ backup_dir = {}
    /\ proc = [p \in Procs |-> ProcInit]
    /\ col_rut = 0 /\ col_email = 0 /\ col_tel = 0
    /\ df = <<>>
    /\ last = NoLast
    /\ pag = PagIdle
    /\ loop = LoopStart
    /\ call = NoCall
    /\ map = MapIdle

NextFn ==
    \/ \E rut \in RutTexts : CallCleanRut(rut)
    \/ \E rut \in RutTexts : CallValidarRut(rut)
    \/ \E x \in RutTexts : CallRoundTrip(x)
    \/ \E t \in BuscarTables : \E criterio \in Criterios : \E transliterate \in BOOLEAN :
          CallBuscar(t, criterio, transliterate)

\* calls of clean_rut, format_rut, validar_rut and buscar
SpecFn == InitFn /\ [][NextFn]_vars

InitMap ==
    /\ lock_file = NoLock
    /\ ruta = OrigFile
    /\ backup_dir = {}
    /\ proc = [p \in Procs |-> ProcInit]
    /\ col_rut = 0 /\ col_email = 0 /\ col_tel = 0
    /\ df = <<>>
    /\ last = NoLast
    /\ pag = PagIdle
    /\ loop = LoopStart
    /\ call = NoCall
    /\ map = MapIdle

NextMap ==
    \/ \E cols \in ColumnLists : Mapear(cols)
    \/ \E resp \in Respuestas : Responder(resp)
    \/ \E resp \in Nombres : Nombrar(resp)

\* one call of mapear_columnas_clave, from the constructor's bindings
SpecMap == InitMap /\ [][NextMap]_vars

(***************************************************************************)
(* The claims about buscar and the validators, checked under SpecFn.       *)
(***************************************************************************)
\* lowercase, and without diacritics when transliteration is available
Folded(s, transliterate) ==
    LET lowered == [i \in 1 .. Len(s) |-> LowerChar(s[i])]
    IN  IF transliterate THEN [i \in 1 .. Len(s) |-> unidecode_char(lowered[i])]
        ELSE lowered

\* the rows of t that hold query q, folded, in the folded value of a column
RowsHolding(t, q, transliterate) ==
    {i \in 1 .. Len(t) :
        \E c \in Cols : Contains(Folded(q, transliterate), Folded(t[i][c], transliterate))}

\* the result holds the rows numbered in rows, each once, in the table's order
KeepsRowsInOrder(out, t, rows) ==
    /\ Len(out.rows) = Len(out.index)
    /\ {out.index[k] : k \in 1 .. Len(out.index)} = rows
    /\ \A k \in 1 .. Len(out.index) - 1 : out.index[k] < out.index[k + 1]
    /\ \A k \in 1 .. Len(out.index) : out.rows[k] = t[out.index[k]]

\* C11 as stated: buscar(df, q) returns exactly the rows of df in which the
\* folded query is a substring of the folded value of a column, with the
\* table's columns, in the table's order; an empty query returns the table.
C11_BuscarFoldedQuery ==
    call.fn = "buscar" =>
        LET t == call.arg.df
            q == call.arg.criterio
        IN  /\ KeepsRowsInOrder(call.out, t, RowsHolding(t, q, call.arg.unidecode))
            /\ call.out.columns = columnas
            /\ q = <<>> => call.out.rows = t

\* C11 amended: the query is stripped of the whitespace around it before it is
\* folded; a query that is empty once stripped returns every row; the result
\* has the table's columns when the table has rows.
C11_BuscarStrippedFoldedQuery ==
    call.fn = "buscar" =>
        LET t == call.arg.df
            q == Strip(call.arg.criterio)
        IN  /\ KeepsRowsInOrder(call.out, t, RowsHolding(t, q, call.arg.unidecode))
            /\ Len(t) > 0 => call.out.columns = columnas
            /\ q = <<>> => call.out.rows = t

\* C11, its case: a query typed with a space after it and in another case
\* than the value finds, with transliteration, the second of two rows
C11_Witness ==
    /\ call.fn = "buscar"
    /\ call.arg.unidecode
    /\ call.arg.criterio = <<"a", " ">>
    /\ Len(call.arg.df) = 2
    /\ call.out.index = <<2>>
    /\ call.out.rows[1][2] = <<"b", "A_acute">>

\* the digits of num from the least significant to the most, each times the
\* weight 2, 3, 4, 5, 6, 7, 2, 3, ..., summed: digit j from the right has
\* weight 2 + ((j - 1) mod 6)
RECURSIVE WeightedSum(_, _)
WeightedSum(num, j) ==
    IF j > Len(num) THEN 0
    ELSE DigitVal(num[Len(num) - j + 1]) * (2 + ((j - 1) % 6)) + WeightedSum(num, j + 1)

CheckChar(num) ==
    LET r == 11 - (WeightedSum(num, 1) % 11)
    IN  IF r = 10 THEN "K" ELSE IF r = 11 THEN "0" ELSE DigitChar(r)

\* the string without dots, hyphens and spaces, ASCII letters in upper case
Normalized(x) ==
    LET kept == SelectSeq(x, LAMBDA c : c \notin {".", "-", " "})
    IN  [i \in 1 .. Len(kept) |-> UpperChar(kept[i])]

HasIdShape(n) ==
    /\ Len(n) \in {8, 9}
    /\ \A i \in 1 .. Len(n) - 1 : n[i] \in Digits
    /\ n[Len(n)] \in Digits \cup {"K"}

\* C12: validar_rut(x) is true iff the normalized x is 7-8 digits followed by
\* one character of 0-9 and K, and that character is the check character of
\* the digits: weights 2..7 cyclically from the least significant digit,
\* r = 11 - (sum mod 11), 10 -> K, 11 -> 0, otherwise the digit r. 12345678-5
\* validates and the empty string does not.
C12_ValidarRutIsCheckChar ==
    call.fn = "validar_rut" =>
        LET n == Normalized(call.arg)
        IN  /\ call.out = (/\ HasIdShape(n)
                           /\ CheckChar(SubSeq(n, 1, Len(n) - 1)) = n[Len(n)])
            /\ call.arg = <<"1", "2", "3", "4", "5", "6", "7", "8", "-", "5">> => call.out
            /\ call.arg = <<>> => ~call.out

\* C12, its case: an ID whose check character is K, typed in lower case with
\* dots and spaces, validates
C12_Witness ==
    /\ call.fn = "validar_rut"
    /\ call.arg = <<" ", "1", "0", ".", "0", "0", "0", "0", "5", "-", "k", " ">>
    /\ call.out

\* C13 as stated: for every normalized x of 8-9 characters that has the shape
\* of an ID, validar_rut(format_rut(clean_rut(x))) is true.
C13_RoundTripValid ==
    call.fn = "round_trip" => call.out.valid

\* C13 amended: for every such x, format_rut(clean_rut(x)) is the digits of x,
\* a hyphen and the check character of x, and it validates iff x validates:
\* it is true when the check character of x is the one computed from its
\* digits and false otherwise.
C13_RoundTripPreservesValidity ==
    call.fn = "round_trip" =>
        LET x == call.arg
            num == SubSeq(x, 1, Len(x) - 1)
        IN  /\ call.out.formatted = num \o <<"-", x[Len(x)]>>
            /\ call.out.valid = validar_rut(x)
            /\ call.out.valid = (CheckChar(num) = x[Len(x)])

\* C13, its case: the round trip of a valid ID of 8 characters validates
C13_Witness ==
    /\ call.fn = "round_trip"
    /\ call.arg = <<"1", "0", "0", "0", "0", "0", "5", "K">>
    /\ call.out.formatted = <<"1", "0", "0", "0", "0", "0", "5", "-", "K">>
    /\ call.out.valid

\* a lowercase letter: one that has an uppercase form, or kra, which has none
IsLowercase(c) == UpperChar(c) # c \/ c = "kra"

\* C14 as stated: clean_rut(clean_rut(x)) = clean_rut(x) for every string x,
\* and clean_rut(x) holds no dot, hyphen, whitespace or lowercase letter.
C14_CleanRutIdempotentNoLowercase ==
    call.fn = "clean_rut" =>
        /\ clean_rut(call.out) = call.out
        /\ \A i \in 1 .. Len(call.out) :
              call.out[i] \notin {".", "-", " "} /\ ~IsLowercase(call.out[i])

\* C14 amended: clean_rut(clean_rut(x)) = clean_rut(x) for every string x, and
\* clean_rut(x) holds no dot, hyphen or whitespace and no letter that has an
\* uppercase form; a lowercase letter that has none stays.
C14_CleanRutIdempotentUppercased ==
    call.fn = "clean_rut" =>
        /\ clean_rut(call.out) = call.out
        /\ \A i \in 1 .. Len(call.out) :
              call.out[i] \notin {".", "-", " "} /\ UpperChar(call.out[i]) = call.out[i]
        /\ \A i \in 1 .. Len(call.arg) :
              call.arg[i] = "kra" => \E j \in 1 .. Len(call.out) : call.out[j] = "kra"

\* C14, its case: an ID typed with spaces, a dot, a hyphen and a lowercase k
C14_Witness ==
    /\ call.fn = "clean_rut"
    /\ call.arg = <<" ", "1", "0", ".", "0", "0", "0", "0", "5", "-", "k", " ">>
    /\ call.out = <<"1", "0", "0", "0", "0", "0", "5", "K">>

(***************************************************************************)
(* The claims about the menu, checked under SpecSession.                   *)
(***************************************************************************)
\* C15: during the CRUD loop the backing file, the sentinel and the backup
\* directory change only in guardar, called by option 6 / g: as long as
\* guardar has not been called they are as they were after the load, so they
\* are after a session that ends with 'q'; and a step changes one of them
\* only while the session is in guardar, called for option 6 or g.
C15_OnlyGuardarChangesFiles ==
    /\ [](loop.guardar = NoOption =>
            /\ ruta = OrigFile
            /\ backup_dir = {}
            /\ lock_file \in {NoLock, StaleLock}
            /\ proc[Session].pc = "idle")
    /\ [][<<ruta, lock_file, backup_dir>>' # <<ruta, lock_file, backup_dir>> =>
             /\ proc[Session].pc # "idle"
             /\ Lower(Strip(loop.guardar)) \in {<<"6">>, <<"g">>}]_vars

\* C15, its case: a session that inserted a row, deleted or updated or looked
\* at the table, and ended with 'q' without guardar: the files are as loaded
C15_Witness ==
    /\ loop.at = "exit"
    /\ loop.guardar = NoOption
    /\ last.op = "salir"
    /\ Len(df) = 2
    /\ ruta = OrigFile /\ backup_dir = {} /\ lock_file = NoLock

(***************************************************************************)
(* The claim about two processes in guardar, checked under SpecSave.       *)
(***************************************************************************)
\* between acquire_lock, which returned True, and the end of release_lock
Holding(p) == proc[p].acquired = "true" /\ proc[p].pc # "done"

\* of two processes whose acquire_lock returned True, one wrote its sentinel
\* over the sentinel of the other: the other had not yet released
Overlapped(p, q) ==
    /\ proc[p].acquired = "true" /\ proc[q].acquired = "true"
    /\ proc[p].created # proc[q].created

\* C16: the sentinel is no mutex. Two processes are between acquire and
\* release at once only when both saw the sentinel absent before either wrote
\* it, and then both acquire_lock calls returned True; the one that finishes
\* first deletes the sentinel (the one the other wrote, or wrote over), so the
\* other goes on with no sentinel in place.
C16_BothHoldThroughCheckWindow ==
    \A p, q \in Procs :
        p # q =>
            /\ Holding(p) /\ Holding(q) =>
                  /\ proc[p].lastSeen = "absent" /\ proc[q].lastSeen = "absent"
                  /\ proc[p].lockWrites = 1 /\ proc[q].lockWrites = 1
                  /\ Overlapped(p, q)
                  /\ lock_file \in {p, q}
            /\ Returned(p) /\ ~proc[p].unlinkFailed /\ Holding(q) /\ Overlapped(p, q) =>
                  /\ proc[p].lockDeletes = 1
                  /\ lock_file = NoLock

\* C16, its case: both processes found no sentinel at their first check and
\* never waited, both acquired and were between acquire and release at once,
\* one has written the backing file, released and deleted the sentinel, and
\* the other is about to write the backing file with no sentinel in place
C16_Witness ==
    \E p, q \in Procs :
        /\ p # q
        /\ proc[p].firstSeen = "absent" /\ proc[q].firstSeen = "absent"
        /\ proc[p].slept = 0 /\ proc[q].slept = 0
        /\ Overlapped(p, q)
        /\ Returned(p) /\ proc[p].wrote = "ok" /\ proc[p].lockDeletes = 1
        /\ ruta = DfFile(p)
        /\ proc[q].pc = "write"
        /\ lock_file = NoLock

(***************************************************************************)
(* The claim about a change of the page size, checked under SpecPag.       *)
(***************************************************************************)
\* C17: after 's' and a valid new page size, pagination restarts at page 0 of
\* the new size: the next page displayed is rows 0 .. newSize - 1, the page
\* count is ceil(total / newSize), and going on to the end from there shows
\* every row of the table.
C17_ResizeRestartsAtPageZero ==
    /\ [][\A nuevo_size \in 1 .. MaxPageSize :
             PagResize(nuevo_size) =>
                 /\ pag'.pc = "show"
                 /\ pag'.i = 0
                 /\ pag'.page_size = nuevo_size
                 /\ pag'.pages = CeilDiv(pag.total, nuevo_size)]_vars
    /\ [](pag.pc = "done" /\ pag.resized /\ ~pag.quit =>
            \A row \in 0 .. pag.total - 1 :
                \E k \in 1 .. Len(pag.shown) : \E j \in 1 .. Len(pag.shown[k]) :
                    pag.shown[k][j] = row)

(***************************************************************************)
(* The claims about delete and the key lookup, checked under SpecCrud.     *)
(***************************************************************************)
\* the lowest index of a row whose normalized ID is the normalized key, 0
\* when no row has it
FirstWithKey(clave) ==
    IF \E i \in 1 .. Len(df) : NormId(i) = NormKey(clave)
    THEN CHOOSE i \in 1 .. Len(df) :
             /\ NormId(i) = NormKey(clave)
             /\ \A j \in 1 .. i - 1 : NormId(j) # NormKey(clave)
    ELSE 0

\* C18: a confirmed delete removes exactly one row, the one at the index the
\* key lookup returned; the rows before it keep their index and content, the
\* rows after it keep their content and order and move down by one. A delete
\* that is not confirmed, finds no row, or has no ID role bound leaves the
\* table as it was.
C18_DeleteRemovesOneRow ==
    [][/\ last'.op = "delete" =>
             LET idx == FirstWithKey(last'.clave)
             IN  /\ col_rut # 0
                 /\ idx \in 1 .. Len(df)
                 /\ last'.idx = idx
                 /\ Len(df') = Len(df) - 1
                 /\ \A j \in 1 .. Len(df') :
                       df'[j] = IF j < idx THEN df[j] ELSE df[j + 1]
       /\ last'.op \in {"delete_cancel", "delete_nf", "delete_unbound"} => df' = df
       /\ last'.op = "delete_cancel" => col_rut # 0 /\ last'.idx = FirstWithKey(last'.clave)
       /\ last'.op = "delete_nf" => col_rut # 0 /\ FirstWithKey(last'.clave) = 0
       /\ last'.op = "delete_unbound" => col_rut = 0
      ]_vars

\* C18, its case: the first of two rows was deleted and the second, typed
\* with a lowercase k, is now the first
C18_Witness ==
    /\ last.op = "delete"
    /\ last.idx = 1
    /\ Len(df) = 1
    /\ df[1].typed = InRutK
    /\ FindByKey(KeyK) = 1

\* C19: the key lookup runs only when the ID role is bound; it compares the
\* normalized key with the normalized stored IDs; when several rows match it
\* takes the lowest index and shows a duplicate warning, in the update path
\* and in the delete path; insert never refuses or removes a duplicate key.
C19_LookupFirstMatchWithWarning ==
    /\ [][\A clave \in KeyInputs :
             /\ (\/ \E entradas \in [Cols -> Inputs] : Update(clave, entradas)
                 \/ Delete(clave)
                 \/ DeleteCancelled(clave)) =>
                    /\ col_rut # 0
                    /\ last'.idx = FirstWithKey(clave)
                    /\ last'.idx # 0
                    /\ Cardinality({i \in 1 .. Len(df) : NormId(i) = NormKey(clave)}) > 1
                          => last'.multiple
             /\ UpdateNotFound(clave) \/ DeleteNotFound(clave) =>
                    col_rut # 0 /\ FirstWithKey(clave) = 0
         ]_vars
    /\ [][UpdateUnbound \/ DeleteUnbound => col_rut = 0 /\ df' = df]_vars
    /\ [][\A entradas \in [Cols -> Inputs] :
             Insert(entradas) =>
                 /\ Len(df') = Len(df) + 1
                 /\ \A i \in 1 .. Len(df) : df'[i] = df[i]]_vars
    /\ [](\A entradas \in [Cols -> Inputs] :
             Len(df) < MaxRows /\ (\A c \in Cols : InsertAccepts(c, entradas[c]))
                 => ENABLED Insert(entradas))

(***************************************************************************)
(* The claim about mapear_columnas_clave, checked under SpecMap.           *)
(***************************************************************************)
\* the binding of role number r
Binding(r) == CASE r = 1 -> col_rut [] r = 2 -> col_email [] r = 3 -> col_tel

\* the positions of the columns whose name, in lower case, holds a pattern of
\* role number r
CandidateSet(r) ==
    {i \in 1 .. Len(map.cols) :
        \E pat \in patrones(Roles[r]) :
            \E k \in 0 .. Len(map.cols[i]) - Len(pat) :
                \A j \in 1 .. Len(pat) : LowerChar(map.cols[i][k + j]) = pat[j]}

\* the prompts shown for role number r: about candidates, and for a name
AskedFor(r) == SelectSeq(map.asked, LAMBDA a : a.tipo = Roles[r])
NamedFor(r) == SelectSeq(map.named, LAMBDA a : a.tipo = Roles[r])

Confirms(resp) == Lower(Strip(resp)) = <<"s">>

\* C20: the roles are processed in the order ID, EMAIL, PHONE. For each, the
\* candidates are asked about in column order; the first one confirmed is
\* bound and no later candidate is asked about; if none is confirmed the
\* name typed is bound iff it is a column of the table, and otherwise the
\* role stays unbound. Every bound role names a column of the table, and the
\* column list is the one the table had.
C20_MappingBindsFirstConfirmed ==
    map.pc # "idle" =>
        /\ map.cols \in ColumnLists
        /\ \A r \in 1 .. Len(Roles) :
              LET asked == AskedFor(r)
                  named == NamedFor(r)
                  n == Len(asked)
              IN  /\ Binding(r) \in 0 .. Len(map.cols)
                  \* candidates in column order, none skipped
                  /\ \A k \in 1 .. n : asked[k].col \in CandidateSet(r)
                  /\ \A k \in 1 .. n - 1 : asked[k].col < asked[k + 1].col
                  /\ \A k \in 1 .. n : \A c \in CandidateSet(r) :
                        c < asked[n].col => \E j \in 1 .. n : asked[j].col = c
                  \* only the last answer can be a confirmation
                  /\ \A k \in 1 .. n - 1 : ~Confirms(asked[k].resp)
                  /\ Len(named) <= 1
                  /\ r > map.tipo => n = 0 /\ named = <<>> /\ Binding(r) = 0
                  /\ r < map.tipo =>
                        IF n > 0 /\ Confirms(asked[n].resp)
                        THEN Binding(r) = asked[n].col /\ named = <<>>
                        ELSE /\ {asked[k].col : k \in 1 .. n} = CandidateSet(r)
                             /\ Len(named) = 1
                             /\ LET name == Strip(named[1].resp)
                                IN  IF \E i \in 1 .. Len(map.cols) : map.cols[i] = name
                                    THEN Binding(r) # 0 /\ map.cols[Binding(r)] = name
                                    ELSE Binding(r) = 0

\* C20, its case: the first candidate for the ID was refused and the second
\* confirmed; the candidate for the email was refused and the column of the
\* ID named instead; no column was named for the phone
C20_Witness ==
    /\ map.pc = "done"
    /\ map.cols = <<ColRUT, ColRut2, ColEmail, ColN>>
    /\ col_rut = 2
    /\ Len(AskedFor(1)) = 2
    /\ Len(AskedFor(2)) = 1
    /\ col_email = 1
    /\ col_tel = 0

SaveFailed == Returned(Session) /\ proc[Session].wrote # "ok"

\* C22: option 6 / g ends the session whether or not the save succeeded.
\* Once the option is chosen the table is not edited again and guardar is
\* called once; when guardar has returned, after a lock timeout or a failed
\* write as after a success, the next step is the end of the loop; the loop
\* always ends; and after a save that failed the backing file does not hold
\* the table of the session.
C22_SaveAndExitEndsSession ==
    /\ [](loop.guardar # NoOption =>
            /\ Handler(loop.guardar) = "guardar"
            /\ proc[Session].pc # "idle")
    /\ [](loop.at = "exit" /\ loop.guardar # NoOption => Returned(Session))
    /\ [](SaveFailed =>
            /\ ruta # DfFile(Session)
            /\ proc[Session].timedOut =>
                  ruta = proc[Session].rutaAtCall /\ backup_dir = proc[Session].backupsAtCall)
    /\ [][loop.guardar # NoOption =>
             /\ df' = df
             /\ loop'.guardar = loop.guardar
             /\ Returned(Session) => proc' = proc /\ loop'.at = "exit"]_vars
    /\ (loop.guardar # NoOption ~> loop.at = "exit")

\* C22, its case: two rows were inserted, option 6 / g was chosen, guardar
\* gave up on a sentinel that stayed in place, and the session is over with
\* the backing file as it was loaded
C22_Witness ==
    /\ loop.at = "exit"
    /\ Handler(loop.guardar) = "guardar"
    /\ Len(df) = 2
    /\ proc[Session].timedOut
    /\ lock_file = StaleLock
    /\ ruta = OrigFile /\ backup_dir = {}
====
